---- MODULE Spec2Model ----
(***************************************************************************)
(* Webhook ingestion and query service (src/main.py).                      *)
(*                                                                         *)
(* Strings are sequences of ASCII codes, so that the regular expression    *)
(* of the payload model, SQLite's lexical ORDER BY / >= on TEXT columns,   *)
(* LOWER() and LIKE are computed character by character.  Python's None    *)
(* and SQL's NULL are the value None.                                      *)
(*                                                                         *)
(* Spec      concurrent POST /webhook requests on an empty database        *)
(* SpecSeq   one request at a time, every endpoint                         *)
(* SpecStats one request at a time, a catalogue of messages and GET /stats *)
(*                                                                         *)
(* Not modelled: storage failures other than the primary-key conflict      *)
(* (a lock wait that times out, a full disk), and JSON members that are    *)
(* neither strings nor null.                                               *)
(***************************************************************************)
EXTENDS Integers, Sequences, FiniteSets, TLC

\* ------------------------------------------------------------------ bounds
\* Concurrent webhook requests in flight (request slots of Spec).
NReq == 2
\* Webhook requests received during one behaviour of Spec.
MaxReceived == 2
\* Webhook requests received during one behaviour of SpecSeq.
MaxSeqReceived == 3
\* Distinct wall-clock readings datetime.utcnow() can return.
MaxTime == 2
\* Messages of the catalogue delivered in SpecStats.
NStatMsgs == 12

\* ----------------------------------------------------------------- strings
None == <<-1>>

PLUS == 43
PERCENT == 37
UNDERSCORE == 95

Digit(d) == 48 + d

\* "+<n>" for 0 <= n <= 99
Msisdn(n) == IF n < 10 THEN <<PLUS, Digit(n)>>
             ELSE <<PLUS, Digit(n \div 10), Digit(n % 10)>>

IsDigit(c) == c \in 48..57

\* str.lower() / SQLite LOWER() on ASCII letters
LowerChar(c) == IF c \in 65..90 THEN c + 32 ELSE c

Lower(s) == [i \in 1..Len(s) |-> LowerChar(s[i])]

\* memcmp order of two TEXT values (SQLite BINARY collation): a < b
LexLess(a, b) ==
    \E i \in 1..Len(b) :
        /\ \A j \in 1..(i - 1) : j <= Len(a) /\ a[j] = b[j]
        /\ \/ i = Len(a) + 1
           \/ i <= Len(a) /\ a[i] < b[i]

LexLeq(a, b) == a = b \/ LexLess(a, b)

\* SQLite's LIKE: % matches any run of characters, _ any one character,
\* other characters match case-insensitively (ASCII).  NULL never matches.
RECURSIVE LikeFrom(_, _, _, _)
LikeFrom(p, i, s, j) ==
    IF i > Len(p) THEN j > Len(s)
    ELSE IF p[i] = PERCENT
         THEN \E k \in j..(Len(s) + 1) : LikeFrom(p, i + 1, s, k)
         ELSE /\ j <= Len(s)
              /\ p[i] = UNDERSCORE \/ LowerChar(p[i]) = LowerChar(s[j])
              /\ LikeFrom(p, i + 1, s, j + 1)

Like(s, p) == s # None /\ LikeFrom(p, 1, s, 1)

\* ------------------------------------------------------------------ config
\* WEBHOOK_SECRET: any non-empty string (the process refuses to start
\* otherwise); here "s3".
WEBHOOK_SECRET == <<115, 51>>

\* ----------------------------------------------------------------- HMAC
\* A raw request body is [kind, obj]: kind says what json.loads makes of
\* the bytes ("object", "array", or "malformed" when they are no JSON), obj
\* is the JSON object's members (a record; a member that is absent from the
\* document is absent from the record, JSON null is None).
\*
\* hmac.new(key, body, sha256).hexdigest(): a keyed digest of the raw body,
\* rendered in lowercase hex.  The digest is one byte wide and is computed
\* from the key's bytes and from every member's length and end characters.
RECURSIVE ByteSum(_, _)
ByteSum(s, acc) ==
    IF s = <<>> THEN acc
    ELSE ByteSum(Tail(s), (acc * 31 + Head(s) + 1) % 256)

StrCode(s) ==
    IF s = None THEN 3
    ELSE IF Len(s) = 0 THEN 5
    ELSE (Len(s) * 13 + s[1] * 5 + s[Len(s)]) % 256

RECURSIVE MembersCode(_, _)
MembersCode(obj, names) ==
    IF names = <<>> THEN 0
    ELSE LET n == Head(names) IN
         ((IF n \in DOMAIN obj THEN StrCode(obj[n]) + Len(names) ELSE 0)
          + 7 * MembersCode(obj, Tail(names))) % 256

MemberNames == <<"message_id", "from", "to", "ts", "text", "raw">>

BodyCode(body) ==
    ((CASE body.kind = "object" -> 1
        [] body.kind = "array" -> 2
        [] OTHER -> 0)
     + 11 * MembersCode(body.obj, MemberNames)) % 256

Digest(key, body) == (ByteSum(key, 0) * 17 + BodyCode(body)) % 256

HexDigit(d) == IF d < 10 THEN 48 + d ELSE 87 + d

HexDigest(n) == <<HexDigit(n \div 16), HexDigit(n % 16)>>

\* expected = hmac.new(WEBHOOK_SECRET.encode(), body, sha256).hexdigest()
Expected(body) == HexDigest(Digest(WEBHOOK_SECRET, body))

\* ------------------------------------------------------------- validation
MaxTextLen == 4096

\* pattern ^\+\d+$
MatchesMsisdn(s) ==
    /\ Len(s) >= 2
    /\ s[1] = PLUS
    /\ \A i \in 2..Len(s) : IsDigit(s[i])

\* Does WebhookMessage(**data) construct?  Required members must be present
\* and strings; text may be absent or null.  (Members are strings or null
\* here; JSON numbers, booleans and nested values are not among the inputs.)
Validates(data) ==
    /\ "message_id" \in DOMAIN data
    /\ data.message_id # None
    /\ Len(data.message_id) >= 1
    /\ "from" \in DOMAIN data
    /\ data.from # None
    /\ MatchesMsisdn(data.from)
    /\ "to" \in DOMAIN data
    /\ data.to # None
    /\ MatchesMsisdn(data.to)
    /\ "ts" \in DOMAIN data
    /\ data.ts # None
    /\ \/ "text" \notin DOMAIN data
       \/ data.text = None
       \/ Len(data.text) <= MaxTextLen

\* The validated model instance.
WebhookMessage(data) ==
    [message_id |-> data.message_id,
     from_ |-> data.from,
     to |-> data.to,
     ts |-> data.ts,
     text |-> IF "text" \in DOMAIN data THEN data.text ELSE None]

\* data = await request.json(); msg = WebhookMessage(**data): succeeds only
\* for a JSON object that validates.  json.JSONDecodeError, the TypeError
\* of ** on a non-mapping and pydantic's ValidationError are all raised
\* inside the handler and none is caught there.
ParsesAndValidates(body) == body.kind = "object" /\ Validates(body.obj)

\* ---------------------------------------------------------------- metrics
\* A Python dict is a function; d.get(k, default) and d[k] = v.
DictGet(d, k, default) == IF k \in DOMAIN d THEN d[k] ELSE default

DictSet(d, k, v) == [x \in DOMAIN d \cup {k} |-> IF x = k THEN v ELSE d[x]]

EmptyDict == [x \in {} |-> 0]

\* inc_http that forgets the count it had.
inc_http_reset(metrics, path, status) == DictSet(metrics, <<path, status>>, 1)

inc_http(metrics, path, status) ==
    DictSet(metrics, <<path, status>>, DictGet(metrics, <<path, status>>, 0) + 1)

inc_webhook(metrics, result) ==
    DictSet(metrics, result, DictGet(metrics, result, 0) + 1)

\* ---------------------------------------------------------------- logging
\* log(request, status, start, extra) prints one line: the request's method
\* and path, the status and the extra members (the timestamp, the random
\* request id and the latency of the line are left out).  lines is what
\* has been printed so far.
log(lines, method, path, status, extra) ==
    Append(lines, [method |-> method, path |-> path, status |-> status] @@ extra)

\* ------------------------------------------------------------------ state
VARIABLES
    messages,         \* the rows of table messages (committed)
    dbLock,           \* the request whose connection holds SQLite's write lock, or 0
    req,              \* the webhook requests being handled, by slot
    received,         \* webhook requests received so far
    HTTP_METRICS,     \* dict (path, status) -> count
    WEBHOOK_METRICS,  \* dict result -> count
    logs,             \* the log lines printed, in order
    resp              \* the response of the read request answered last, until
                      \* the next webhook request arrives

vars == <<messages, dbLock, req, received, HTTP_METRICS, WEBHOOK_METRICS, logs, resp>>

Times == 1..MaxTime

NoBody == [kind |-> "none", obj |-> [raw |-> <<>>]]

NoMsg == [message_id |-> None, from_ |-> None, to |-> None, ts |-> None, text |-> None]

Idle == [pc |-> "idle", body |-> NoBody, signature |-> None, msg |-> NoMsg,
         created_at |-> 0, result |-> "", dup |-> FALSE, status |-> 0]

NoResp == [endpoint |-> "none"]

\* The process has started (startup() has created the table if it was not
\* there) on the database file it finds: db is the table's rows.
Started(db, slots) ==
    /\ messages = db
    /\ dbLock = 0
    /\ req = [r \in slots |-> Idle]
    /\ received = 0
    /\ HTTP_METRICS = EmptyDict
    /\ WEBHOOK_METRICS = EmptyDict
    /\ logs = <<>>
    /\ resp = NoResp

\* ---------------------------------------------------------------- storage
\* A table without the primary key: no INSERT conflicts.
NoPrimaryKey(table, message_id) == FALSE

\* PRIMARY KEY (message_id): does the INSERT of a row with this key raise
\* sqlite3.IntegrityError?
Conflicts(table, message_id) == \E row \in table : row.message_id = message_id

\* The row INSERT INTO messages VALUES (?, ?, ?, ?, ?, ?) writes.
Row(msg, created_at) ==
    [message_id |-> msg.message_id,
     from_msisdn |-> msg.from_,
     to_msisdn |-> msg.to,
     ts |-> msg.ts,
     text |-> msg.text,
     created_at |-> created_at]

\* ------------------------------------------------------------ POST /webhook
\* The handler is a coroutine; its steps are the stretches of code between
\* the points where another request's handler (of this process, at an
\* await, or of another worker process on the same database file) can run.

\* body = await request.body(); signature = request.headers.get("X-Signature")
Receive(r, body, signature) ==
    /\ req[r].pc \in {"idle", "done"}
    /\ req' = [req EXCEPT ![r] = [Idle EXCEPT !.pc = "verify", !.body = body,
                                              !.signature = signature]]
    /\ received' = received + 1
    /\ resp' = NoResp
    /\ UNCHANGED <<messages, dbLock, HTTP_METRICS, WEBHOOK_METRICS, logs>>

\* Verify with a check that lets a request without the header through.
VerifyHeaderOptional(r) ==
    /\ req[r].pc = "verify"
    /\ IF req[r].signature # None /\ req[r].signature # Expected(req[r].body)
       THEN /\ HTTP_METRICS' = inc_http(HTTP_METRICS, "/webhook", 401)
            /\ WEBHOOK_METRICS' = inc_webhook(WEBHOOK_METRICS, "invalid_signature")
            /\ logs' = log(logs, "POST", "/webhook", 401,
                           [result |-> "invalid_signature"])
            /\ req' = [req EXCEPT ![r].pc = "done", ![r].status = 401,
                                  ![r].result = "invalid_signature"]
       ELSE /\ req' = [req EXCEPT ![r].pc = "parse"]
            /\ UNCHANGED <<HTTP_METRICS, WEBHOOK_METRICS, logs>>
    /\ UNCHANGED <<messages, dbLock, received, resp>>

\* The signature check, and the 401 path.
Verify(r) ==
    /\ req[r].pc = "verify"
    /\ IF req[r].signature # Expected(req[r].body)
       THEN /\ HTTP_METRICS' = inc_http(HTTP_METRICS, "/webhook", 401)
            /\ WEBHOOK_METRICS' = inc_webhook(WEBHOOK_METRICS, "invalid_signature")
            /\ logs' = log(logs, "POST", "/webhook", 401,
                           [result |-> "invalid_signature"])
            /\ req' = [req EXCEPT ![r].pc = "done", ![r].status = 401,
                                  ![r].result = "invalid_signature"]
       ELSE /\ req' = [req EXCEPT ![r].pc = "parse"]
            /\ UNCHANGED <<HTTP_METRICS, WEBHOOK_METRICS, logs>>
    /\ UNCHANGED <<messages, dbLock, received, resp>>

\* data = await request.json(); msg = WebhookMessage(**data).  An exception
\* here leaves the handler uncaught: the server answers 500.
Parse(r) ==
    /\ req[r].pc = "parse"
    /\ IF ParsesAndValidates(req[r].body)
       THEN req' = [req EXCEPT ![r].pc = "insert",
                               ![r].msg = WebhookMessage(req[r].body.obj)]
       ELSE req' = [req EXCEPT ![r].pc = "done", ![r].status = 500,
                               ![r].result = "exception"]
    /\ UNCHANGED <<messages, dbLock, received, HTTP_METRICS, WEBHOOK_METRICS, logs, resp>>

\* Execute on a table whose key is looked up first and inserted later, with
\* no lock held in between.
ExecuteCheckThenInsert(r, now) ==
    /\ req[r].pc = "insert"
    /\ IF Conflicts(messages, req[r].msg.message_id)
       THEN req' = [req EXCEPT ![r].pc = "finish", ![r].result = "duplicate",
                               ![r].dup = TRUE]
       ELSE req' = [req EXCEPT ![r].pc = "commit", ![r].created_at = now]
    /\ UNCHANGED <<messages, dbLock, received, HTTP_METRICS, WEBHOOK_METRICS, logs, resp>>

\* Execute as INSERT OR REPLACE: a row with the same key is overwritten.
ExecuteUpsert(r, now) ==
    /\ req[r].pc = "insert"
    /\ dbLock = 0
    /\ messages' = {row \in messages : row.message_id # req[r].msg.message_id}
    /\ req' = [req EXCEPT ![r].pc = "commit", ![r].created_at = now]
    /\ dbLock' = r
    /\ UNCHANGED <<received, HTTP_METRICS, WEBHOOK_METRICS, logs, resp>>

\* db = get_db(); db.execute("INSERT ..."): the statement takes the write
\* lock (it waits while another connection holds it) and checks the primary
\* key.  On a conflict it raises IntegrityError: the except branch sets
\* result, the finally branch closes the connection, which ends the
\* transaction.  now is the reading of datetime.utcnow().
Execute(r, now) ==
    /\ req[r].pc = "insert"
    /\ dbLock = 0
    /\ IF Conflicts(messages, req[r].msg.message_id)
       THEN /\ req' = [req EXCEPT ![r].pc = "finish", ![r].result = "duplicate",
                                  ![r].dup = TRUE]
            /\ dbLock' = 0
       ELSE /\ req' = [req EXCEPT ![r].pc = "commit", ![r].created_at = now]
            /\ dbLock' = r
    /\ UNCHANGED <<messages, received, HTTP_METRICS, WEBHOOK_METRICS, logs, resp>>

\* db.commit(); result = "created"; dup = False; finally: db.close()
Commit(r) ==
    /\ req[r].pc = "commit"
    /\ messages' = messages \cup {Row(req[r].msg, req[r].created_at)}
    /\ dbLock' = 0
    /\ req' = [req EXCEPT ![r].pc = "finish", ![r].result = "created", ![r].dup = FALSE]
    /\ UNCHANGED <<received, HTTP_METRICS, WEBHOOK_METRICS, logs, resp>>

\* inc_http("/webhook", 200); inc_webhook(result); log(...); return
Finish(r) ==
    /\ req[r].pc = "finish"
    /\ HTTP_METRICS' = inc_http(HTTP_METRICS, "/webhook", 200)
    /\ WEBHOOK_METRICS' = inc_webhook(WEBHOOK_METRICS, req[r].result)
    /\ logs' = log(logs, "POST", "/webhook", 200,
                   [message_id |-> req[r].msg.message_id, dup |-> req[r].dup,
                    result |-> req[r].result])
    /\ req' = [req EXCEPT ![r].pc = "done", ![r].status = 200]
    /\ UNCHANGED <<messages, dbLock, received, resp>>

\* ------------------------------------------------------------ GET /messages
\* A request's query string is a dict from parameter names to values.  The
\* handler's parameters are bound by their own names: limit, offset, from_,
\* since, q; a query parameter of any other name is ignored.
DefaultLimit == 50

Bind(query) ==
    [limit |-> DictGet(query, "limit", DefaultLimit),
     offset |-> DictGet(query, "offset", 0),
     from_ |-> DictGet(query, "from_", None),
     since |-> DictGet(query, "since", None),
     q |-> DictGet(query, "q", None)]

\* Python truth of an Optional[str]
Truthy(s) == s # None /\ s # <<>>

SqlLower(s) == IF s = None THEN None ELSE Lower(s)

\* The WHERE clause the handler builds for these arguments.
Where(row, args) ==
    /\ Truthy(args.from_) => row.from_msisdn = args.from_
    /\ Truthy(args.since) => LexLeq(args.since, row.ts)
    /\ Truthy(args.q) =>
          Like(SqlLower(row.text), <<PERCENT>> \o Lower(args.q) \o <<PERCENT>>)

\* ORDER BY ts ASC, message_id ASC
RowBefore(a, b) ==
    \/ LexLess(a.ts, b.ts)
    \/ a.ts = b.ts /\ LexLess(a.message_id, b.message_id)

RECURSIVE OrderRows(_)
OrderRows(rows) ==
    IF rows = {} THEN <<>>
    ELSE LET first == CHOOSE a \in rows : \A b \in rows \ {a} : RowBefore(a, b)
         IN <<first>> \o OrderRows(rows \ {first})

\* LIMIT ? OFFSET ?: SQLite reads a negative LIMIT as no limit and a
\* negative OFFSET as 0.
LimitOffset(seq, limit, offset) ==
    LET skip == IF offset < 0 THEN 0 ELSE offset
        left == IF skip >= Len(seq) THEN 0 ELSE Len(seq) - skip
        take == IF limit < 0 \/ limit > left THEN left ELSE limit
    IN [i \in 1..take |-> seq[skip + i]]

Item(row) ==
    [message_id |-> row.message_id, from |-> row.from_msisdn,
     to |-> row.to_msisdn, ts |-> row.ts, text |-> row.text]

get_messages(table, query) ==
    LET args == Bind(query)
        matching == {row \in table : Where(row, args)}
        rows == LimitOffset(OrderRows(matching), args.limit, args.offset)
    IN [endpoint |-> "/messages",
        query |-> query,
        data |-> [i \in 1..Len(rows) |-> Item(rows[i])],
        total |-> Cardinality(matching),
        limit |-> args.limit,
        offset |-> args.offset]

GetMessages(query) ==
    /\ resp' = get_messages(messages, query)
    /\ UNCHANGED <<messages, dbLock, req, received, HTTP_METRICS, WEBHOOK_METRICS, logs>>

\* --------------------------------------------------------------- GET /stats
TopSenders == 10

SenderCount(table, sender) == Cardinality({row \in table : row.from_msisdn = sender})

\* GROUP BY from_msisdn ORDER BY count DESC: the order of senders with equal
\* counts is the engine's choice; tie picks it (by sender, up or down).
SenderBefore(table, tie, a, b) ==
    \/ SenderCount(table, a) > SenderCount(table, b)
    \/ /\ SenderCount(table, a) = SenderCount(table, b)
       /\ IF tie = "up" THEN LexLess(a, b) ELSE LexLess(b, a)

RECURSIVE OrderSenders(_, _, _)
OrderSenders(table, tie, senders) ==
    IF senders = {} THEN <<>>
    ELSE LET first == CHOOSE a \in senders :
                          \A b \in senders \ {a} : SenderBefore(table, tie, a, b)
         IN <<[sender |-> first, count |-> SenderCount(table, first)]>>
            \o OrderSenders(table, tie, senders \ {first})

\* SELECT MIN(ts) / MAX(ts): NULL on an empty table
MinTs(table) ==
    IF table = {} THEN None
    ELSE LET all == {row.ts : row \in table}
         IN CHOOSE t \in all : \A u \in all : LexLeq(t, u)

MaxTs(table) ==
    IF table = {} THEN None
    ELSE LET all == {row.ts : row \in table}
         IN CHOOSE t \in all : \A u \in all : LexLeq(u, t)

stats(table, tie) ==
    LET grouped == OrderSenders(table, tie, {row.from_msisdn : row \in table})
        senders == LimitOffset(grouped, TopSenders, 0)
    IN [endpoint |-> "/stats",
        total_messages |-> Cardinality(table),
        senders_count |-> Len(senders),
        messages_per_sender |->
            [i \in 1..Len(senders) |-> [from |-> senders[i].sender,
                                        count |-> senders[i].count]],
        first_message_ts |-> MinTs(table),
        last_message_ts |-> MaxTs(table)]

Stats(tie) ==
    /\ resp' = stats(messages, tie)
    /\ UNCHANGED <<messages, dbLock, req, received, HTTP_METRICS, WEBHOOK_METRICS, logs>>

\* ------------------------------------------------- health and GET /metrics
Live ==
    /\ resp' = [endpoint |-> "/health/live", status |-> "alive"]
    /\ UNCHANGED <<messages, dbLock, req, received, HTTP_METRICS, WEBHOOK_METRICS, logs>>

Ready ==
    /\ resp' = [endpoint |-> "/health/ready", status |-> "ready"]
    /\ UNCHANGED <<messages, dbLock, req, received, HTTP_METRICS, WEBHOOK_METRICS, logs>>

\* One line per counter; the lines are kept as a set (their order, the
\* dicts' insertion order, is left out).
metrics(http, webhook) ==
    [endpoint |-> "/metrics",
     lines |-> {[name |-> "http_requests_total", labels |-> k, value |-> http[k]] :
                    k \in DOMAIN http}
               \cup {[name |-> "webhook_requests_total", labels |-> <<k>>,
                      value |-> webhook[k]] : k \in DOMAIN webhook}]

Metrics ==
    /\ resp' = metrics(HTTP_METRICS, WEBHOOK_METRICS)
    /\ UNCHANGED <<messages, dbLock, req, received, HTTP_METRICS, WEBHOOK_METRICS, logs>>

\* ------------------------------------------------------------------ inputs
Str_a == <<97>>
Str_b == <<98>>
Str_c == <<99>>
Ts1 == <<49>>
Ts2 == <<50>>
Str_Hi == <<72, 105>>
Str_hi == <<104, 105>>
Str_HI == <<72, 73>>
Str_oh == <<111, 104>>

Text(n) == [i \in 1..n |-> 120]

Object(message_id, from, to, ts, text) ==
    [kind |-> "object",
     obj |-> [message_id |-> message_id, from |-> from, to |-> to, ts |-> ts,
              text |-> text]]

\* Valid payloads.  MsgA1 and MsgA2 carry the same message_id and differ in
\* every other member.
MsgA1 == Object(Str_a, Msisdn(1), Msisdn(9), Ts1, Str_oh)
MsgA2 == Object(Str_a, Msisdn(2), Msisdn(8), Ts2, Str_HI)
MsgB == Object(Str_b, Msisdn(1), Msisdn(9), Ts2, Str_Hi)
MsgC == Object(Str_c, Msisdn(2), Msisdn(9), Ts1, None)
MsgNoText == [kind |-> "object",
              obj |-> [message_id |-> Str_c, from |-> Msisdn(10), to |-> Msisdn(9),
                       ts |-> Ts1]]

\* Payloads that fail validation, and bodies that are no JSON object.
BadEmptyId == Object(<<>>, Msisdn(1), Msisdn(9), Ts1, Str_Hi)
BadFrom == Object(Str_a, <<Digit(1), Digit(2)>>, Msisdn(9), Ts1, Str_Hi)
BadTo == Object(Str_a, Msisdn(1), <<PLUS>>, Ts1, Str_Hi)
BadNoTs == [kind |-> "object",
            obj |-> [message_id |-> Str_a, from |-> Msisdn(1), to |-> Msisdn(9),
                     text |-> Str_Hi]]
BadText == Object(Str_a, Msisdn(1), Msisdn(9), Ts1, Text(MaxTextLen + 1))
BadJson == [kind |-> "malformed", obj |-> [raw |-> <<123>>]]
BadArray == [kind |-> "array", obj |-> [raw |-> <<91, 93>>]]

ValidBodies == {MsgA1, MsgA2, MsgNoText}

InvalidBodies == {BadEmptyId, BadFrom, BadTo, BadNoTs, BadText, BadJson, BadArray}

WrongKey == <<115, 52>>

\* The X-Signature header made with another key.
Forged(body) == HexDigest(Digest(WrongKey, body))

\* The requests of Spec, as <<body, X-Signature>>: every body rightly
\* signed, and a valid payload, an invalid payload and a body that is no
\* JSON each without the header and with a forged one.
Requests ==
    {<<body, Expected(body)>> : body \in ValidBodies \cup InvalidBodies}
    \cup {<<body, None>> : body \in {MsgA1, BadFrom, BadJson}}
    \cup {<<body, Forged(body)>> : body \in {MsgA1, BadFrom, BadJson}}

\* ------------------------------------------------------------------- Spec
\* Concurrent ingestion into an empty database.
Slots == 1..NReq

Init == Started({}, Slots)

DoReceive ==
    /\ received < MaxReceived
    /\ \E r \in DOMAIN req : \E request \in Requests :
           Receive(r, request[1], request[2])

DoVerify == \E r \in DOMAIN req : Verify(r)

DoParse == \E r \in DOMAIN req : Parse(r)

DoExecute == \E r \in DOMAIN req : \E now \in Times : Execute(r, now)

DoCommit == \E r \in DOMAIN req : Commit(r)

DoFinish == \E r \in DOMAIN req : Finish(r)

Next == DoReceive \/ DoVerify \/ DoParse \/ DoExecute \/ DoCommit \/ DoFinish

Spec == Init /\ [][Next]_vars

\* ---------------------------------------------------------------- SpecSeq
\* One request at a time, every endpoint, on an empty database: a read
\* request arrives when no webhook request is being handled, and its
\* response stands until the next webhook request.
Quiet == resp = NoResp /\ \A r \in DOMAIN req : req[r].pc \in {"idle", "done"}

SeqRequests ==
    {<<body, Expected(body)>> : body \in {MsgA1, MsgA2, MsgB, MsgC, BadFrom}}
    \cup {<<MsgB, None>>}

Pagination ==
    {EmptyDict}
    \cup {("limit" :> l) : l \in {-1, 0, 1, 2}}
    \cup {("offset" :> o) : o \in {-1, 1, 2}}
    \cup {("limit" :> l) @@ ("offset" :> o) : l \in {-1, 1, 2}, o \in {-1, 1, 2}}

Filters ==
    {("from" :> Msisdn(1)), ("from_" :> Msisdn(1)), ("from_" :> Msisdn(2)),
     ("from_" :> <<>>), ("since" :> Ts2), ("q" :> Str_hi), ("q" :> Str_HI),
     ("q" :> <<UNDERSCORE>>), ("q" :> <<PERCENT>>),
     ("from_" :> Msisdn(1)) @@ ("q" :> Str_hi),
     ("from_" :> Msisdn(2)) @@ ("since" :> Ts2),
     ("since" :> Ts2) @@ ("q" :> Str_hi),
     ("from" :> Msisdn(2)) @@ ("limit" :> 1)}

Queries == Pagination \cup Filters

Ties == {"up", "down"}

InitSeq == Started({}, {1})

SeqReceive ==
    /\ received < MaxSeqReceived
    /\ \E request \in SeqRequests : Receive(1, request[1], request[2])

DoGetMessages == Quiet /\ \E query \in Queries : GetMessages(query)

DoStats == Quiet /\ \E tie \in Ties : Stats(tie)

DoLive == Quiet /\ Live

DoReady == Quiet /\ Ready

DoMetrics == Quiet /\ Metrics

NextSeq ==
    \/ SeqReceive \/ DoVerify \/ DoParse \/ DoExecute \/ DoCommit \/ DoFinish
    \/ DoGetMessages \/ DoStats \/ DoLive \/ DoReady \/ DoMetrics

SpecSeq == InitSeq /\ [][NextSeq]_vars

\* -------------------------------------------------------------- SpecStats
\* One request at a time on an empty database: a sender delivers the
\* messages of a catalogue in turn, rightly signed, message i from "+i" or
\* from "+1", and /stats is read in between.  The clock reads 1 throughout.
StatBody(i, sender) ==
    Object(<<96 + i>>, Msisdn(sender), Msisdn(0), <<Digit(1 + (i % 3))>>, None)

StatReceive ==
    /\ received < NStatMsgs
    /\ \E sender \in {1, received + 1} :
           Receive(1, StatBody(received + 1, sender),
                   Expected(StatBody(received + 1, sender)))

StatExecute == Execute(1, 1)

NextStats ==
    \/ StatReceive \/ DoVerify \/ DoParse \/ StatExecute \/ DoCommit \/ DoFinish
    \/ DoStats

SpecStats == InitSeq /\ [][NextStats]_vars

\* ================================================================== claims
RowsWithId(id) == {row \in messages : row.message_id = id}

\* The log lines of answered deliveries of a message id, by position.
Deliveries(id) ==
    {i \in DOMAIN logs : logs[i].status = 200 /\ logs[i].message_id = id}

LinesWithResult(result) == {i \in DOMAIN logs : logs[i].result = result}

LinesWithStatus(status) == {i \in DOMAIN logs : logs[i].status = status}

RightlySigned(r) == req[r].signature = Expected(req[r].body)

\* The message ids the valid payloads carry.
MessageIds == {body.obj.message_id : body \in {MsgA1, MsgA2, MsgB, MsgC, MsgNoText}}

\* Requests whose insert has been decided and whose answer is not yet
\* logged, or is the latest: those at "finish".
Deciding(id, result) ==
    {r \in DOMAIN req : req[r].pc = "finish" /\ req[r].msg.message_id = id
                          /\ req[r].result = result}

\* ---- C2: of the concurrent deliveries of one message id exactly one is
\* classified created and the others duplicate, the table holds one row of
\* the id, and no rightly signed valid delivery ends in an error.
C2_OneWinner ==
    /\ \A id \in MessageIds :
          /\ Cardinality(RowsWithId(id)) <= 1
          /\ Cardinality(Deciding(id, "created"))
               + Cardinality(Deliveries(id) \cap LinesWithResult("created"))
             = Cardinality(RowsWithId(id))
    /\ \A r \in DOMAIN req :
          /\ req[r].pc \in {"finish", "done"} /\ req[r].result = "duplicate"
               => Cardinality(RowsWithId(req[r].msg.message_id)) = 1
          /\ req[r].pc = "done" /\ RightlySigned(r) /\ ParsesAndValidates(req[r].body)
               => req[r].status = 200 /\ req[r].result \in {"created", "duplicate"}

\* Two deliveries of one id in flight together, one the winner, one the loser.
C2_Witness ==
    \E r1, r2 \in DOMAIN req :
        /\ r1 # r2
        /\ req[r1].pc = "finish" /\ req[r2].pc = "finish"
        /\ req[r1].msg.message_id = req[r2].msg.message_id
        /\ req[r1].result = "created" /\ req[r2].result = "duplicate"
        /\ Cardinality(RowsWithId(req[r1].msg.message_id)) = 1

\* ---- C3: a request whose X-Signature is missing or is not the expected
\* digest never gets to the payload or the database: it is answered 401
\* and counted invalid_signature in the step that checks it, whatever its
\* body, and that step leaves the table and the write lock alone.
C3_Rejected ==
    /\ [](\A r \in DOMAIN req :
            req[r].pc # "idle" /\ ~RightlySigned(r) =>
                /\ req[r].pc \in {"verify", "done"}
                /\ req[r].msg = NoMsg
                /\ req[r].pc = "done" =>
                       req[r].status = 401 /\ req[r].result = "invalid_signature")
    /\ [][\A r \in DOMAIN req :
            req[r].pc = "verify" /\ ~RightlySigned(r) /\ req'[r] # req[r] =>
                /\ req'[r].pc = "done"
                /\ req'[r].status = 401
                /\ messages' = messages
                /\ dbLock' = dbLock
                /\ logs' = Append(logs, [method |-> "POST", path |-> "/webhook",
                                         status |-> 401,
                                         result |-> "invalid_signature"])]_vars

\* A valid payload without the header and a body that is no JSON with a
\* forged header, both answered 401, and nothing stored.
C3_Witness ==
    \E r1, r2 \in DOMAIN req :
        /\ req[r1].pc = "done" /\ req[r1].status = 401
        /\ req[r1].signature = None /\ ParsesAndValidates(req[r1].body)
        /\ req[r2].pc = "done" /\ req[r2].status = 401
        /\ req[r2].signature = Forged(req[r2].body) /\ req[r2].body.kind = "malformed"
        /\ messages = {}
        /\ DictGet(WEBHOOK_METRICS, "invalid_signature", 0) = 2

\* ---- C4: a rightly signed request whose payload fails validation is
\* answered with a 4xx status and the database is not touched.
C4_ClientError ==
    \A r \in DOMAIN req :
        req[r].pc = "done" /\ RightlySigned(r) /\ ~ParsesAndValidates(req[r].body)
            => req[r].status \in 400..499 /\ req[r].created_at = 0

RECURSIVE DictSum(_, _)
DictSum(d, keys) ==
    IF keys = {} THEN 0
    ELSE LET k == CHOOSE x \in keys : TRUE IN d[k] + DictSum(d, keys \ {k})

\* No webhook request is being handled: all received ones are answered.
Answered == Cardinality({r \in DOMAIN req : req[r].pc \in {"verify", "parse", "insert",
                                                              "commit", "finish"}}) = 0

\* ---- C5: every answered webhook request, whatever its path, has printed
\* one log line and incremented one webhook counter and the HTTP counter of
\* the status it was answered with.
C5_OneOfEach ==
    /\ \A r \in DOMAIN req :
          req[r].pc = "done" => DictGet(HTTP_METRICS, <<"/webhook", req[r].status>>, 0) >= 1
    /\ Answered =>
          /\ Len(logs) = received
          /\ DictSum(WEBHOOK_METRICS, DOMAIN WEBHOOK_METRICS) = received
          /\ DictSum(HTTP_METRICS, DOMAIN HTTP_METRICS) = received

Results == {"invalid_signature", "created", "duplicate"}

\* ---- C10: no increment is lost and no counter decreases: under every
\* interleaving each counter equals the number of requests that took its
\* path (each of them prints one log line).
C10_Counters ==
    /\ [](/\ DOMAIN WEBHOOK_METRICS \subseteq Results
          /\ \A result \in Results :
                DictGet(WEBHOOK_METRICS, result, 0) = Cardinality(LinesWithResult(result))
          /\ DOMAIN HTTP_METRICS \subseteq {<<"/webhook", 200>>, <<"/webhook", 401>>}
          /\ \A status \in {200, 401} :
                DictGet(HTTP_METRICS, <<"/webhook", status>>, 0)
                    = Cardinality(LinesWithStatus(status)))
    /\ [][/\ \A k \in DOMAIN HTTP_METRICS :
               k \in DOMAIN HTTP_METRICS' /\ HTTP_METRICS'[k] >= HTTP_METRICS[k]
          /\ \A k \in DOMAIN WEBHOOK_METRICS :
               k \in DOMAIN WEBHOOK_METRICS' /\ WEBHOOK_METRICS'[k] >= WEBHOOK_METRICS[k]]_vars

\* Every slot has answered 200 and the counter of (/webhook, 200) has
\* counted each of the requests received.
C10_Witness ==
    /\ \A r \in DOMAIN req : req[r].pc = "done" /\ req[r].status = 200
    /\ Cardinality(DOMAIN req) >= 2
    /\ HTTP_METRICS[<<"/webhook", 200>>] = received
    /\ received >= 2

\* ---- C1: in any sequence of deliveries, the first answered delivery of a
\* message id is classified created and every later one duplicate, each
\* rightly signed valid delivery is answered 200, and the table holds
\* exactly one row of the id.
C1_Idempotent ==
    /\ \A id \in MessageIds :
          Deliveries(id) # {} =>
              /\ Cardinality(RowsWithId(id)) = 1
              /\ \A i \in Deliveries(id) :
                    logs[i].result =
                        IF \A j \in Deliveries(id) : i <= j THEN "created" ELSE "duplicate"
    /\ \A r \in DOMAIN req :
          req[r].pc = "done" /\ RightlySigned(r) /\ ParsesAndValidates(req[r].body) =>
              /\ req[r].status = 200
              /\ logs[Len(logs)].status = 200
              /\ logs[Len(logs)].message_id = req[r].msg.message_id
              /\ logs[Len(logs)].result = req[r].result

\* One message id delivered three times: created, duplicate, duplicate.
C1_Witness ==
    /\ Len(logs) = 3
    /\ \A i \in 1..3 : logs[i].status = 200 /\ logs[i].message_id = Str_a
    /\ logs[1].result = "created"
    /\ logs[2].result = "duplicate" /\ logs[3].result = "duplicate"
    /\ Cardinality(messages) = 1

\* ---- C9: rows are only ever added, one at a time, by the commit of a
\* rightly signed valid request whose message id the table did not hold;
\* a row once written stays as written (a later delivery of its id with
\* other members changes nothing) and no read endpoint changes the table.
C9_Immutable ==
    /\ [](\A a, b \in messages : a.message_id = b.message_id => a = b)
    /\ [][/\ messages \subseteq messages'
          /\ messages' # messages =>
                \E r \in DOMAIN req :
                    /\ req[r].pc = "commit" /\ req'[r].pc = "finish"
                    /\ RightlySigned(r)
                    /\ ParsesAndValidates(req[r].body)
                    /\ RowsWithId(req[r].msg.message_id) = {}
                    /\ messages' = messages \cup
                          {Row(WebhookMessage(req[r].body.obj), req[r].created_at)}
          /\ resp' # resp /\ resp' # NoResp => messages' = messages]_vars

\* A delivery of a stored id with other members has been answered, and the
\* stored row is the one first written.
C9_Witness ==
    \E r \in DOMAIN req : \E row \in messages :
        /\ req[r].pc = "done" /\ req[r].result = "duplicate"
        /\ row.message_id = req[r].msg.message_id
        /\ row.from_msisdn # req[r].msg.from_
        /\ row.ts # req[r].msg.ts
        /\ row.text # req[r].msg.text
        /\ resp.endpoint = "/stats"

Senders == {row.from_msisdn : row \in messages}

StatsListRight ==
    /\ resp.total_messages = Cardinality(messages)
    /\ Len(resp.messages_per_sender) <= TopSenders
    /\ \A i, j \in DOMAIN resp.messages_per_sender :
          i < j => resp.messages_per_sender[i].count >= resp.messages_per_sender[j].count
    /\ \A i \in DOMAIN resp.messages_per_sender :
          /\ resp.messages_per_sender[i].from \in Senders
          /\ resp.messages_per_sender[i].count
               = SenderCount(messages, resp.messages_per_sender[i].from)
    /\ messages = {} =>
          /\ resp.first_message_ts = None
          /\ resp.last_message_ts = None
          /\ resp.total_messages = 0

\* ---- C6: /stats reports the number of messages, the number of distinct
\* senders (also when there are more than ten), at most ten senders by
\* falling count, and null timestamps and total 0 on an empty table.
C6_Stats ==
    resp.endpoint = "/stats" =>
        /\ StatsListRight
        /\ resp.senders_count = Cardinality(Senders)

\* What holds of /stats: all of the above with senders_count the number
\* of distinct senders up to ten.
StatsAsCoded ==
    resp.endpoint = "/stats" =>
        /\ StatsListRight
        /\ resp.senders_count =
              IF Cardinality(Senders) <= TopSenders THEN Cardinality(Senders)
              ELSE TopSenders

\* Does text contain sub, letter case aside?
ContainsFold(text, sub) ==
    \E k \in 0..(Len(text) - Len(sub)) :
        \A j \in 1..Len(sub) : LowerChar(text[k + j]) = LowerChar(sub[j])

\* ---- C7: /messages with query parameter from returns only rows of that
\* sender, and with q only rows whose text is not null and contains q,
\* letter case aside; several filters hold together.
C7_Filters ==
    resp.endpoint = "/messages" =>
        /\ "from" \in DOMAIN resp.query =>
              \A i \in DOMAIN resp.data : resp.data[i].from = resp.query.from
        /\ "q" \in DOMAIN resp.query /\ resp.query.q # <<>> =>
              \A i \in DOMAIN resp.data :
                  /\ resp.data[i].text # None
                  /\ ContainsFold(resp.data[i].text, resp.query.q)

\* What holds of /messages: the sender filter under the name from_, and
\* the text filter for a q without the LIKE wildcards.
FiltersAsCoded ==
    resp.endpoint = "/messages" =>
        /\ "from_" \in DOMAIN resp.query /\ resp.query.from_ # <<>> =>
              \A i \in DOMAIN resp.data : resp.data[i].from = resp.query.from_
        /\ /\ "q" \in DOMAIN resp.query
           /\ resp.query.q # <<>>
           /\ \A j \in DOMAIN resp.query.q : resp.query.q[j] \notin {PERCENT, UNDERSCORE}
           => \A i \in DOMAIN resp.data :
                  /\ resp.data[i].text # None
                  /\ ContainsFold(resp.data[i].text, resp.query.q)

\* The elements of seq at the positions offset <= p < offset + limit,
\* counted from 0.
Slice(seq, limit, offset) ==
    LET positions == {p \in 0..(Len(seq) - 1) : offset <= p /\ p < offset + limit}
        first == IF offset < 0 THEN 0 ELSE offset
    IN [i \in 1..Cardinality(positions) |-> seq[first + i]]

PageOf(limit, offset) ==
    LET args == Bind(resp.query)
        matching == {row \in messages : Where(row, args)}
        sorted == OrderRows(matching)
        page == Slice(sorted, limit, offset)
    IN /\ resp.data = [i \in 1..Len(page) |-> Item(page[i])]
       /\ \A i, j \in DOMAIN resp.data :
             i < j => \/ LexLess(resp.data[i].ts, resp.data[j].ts)
                      \/ /\ resp.data[i].ts = resp.data[j].ts
                         /\ LexLess(resp.data[i].message_id, resp.data[j].message_id)
       /\ resp.total = Cardinality(matching)
       /\ resp.limit = args.limit
       /\ resp.offset = args.offset

\* ---- C8: for every limit and offset /messages returns the matching rows
\* in (ts, message_id) order at the positions offset <= p < offset + limit,
\* the number of matching rows as total, and limit and offset as given.
C8_Page ==
    resp.endpoint = "/messages" => PageOf(Bind(resp.query).limit, Bind(resp.query).offset)

\* What holds of /messages: the slice for a limit and an offset that are
\* not negative.
PageAsCoded ==
    /\ resp.endpoint = "/messages"
    /\ Bind(resp.query).limit >= 0
    /\ Bind(resp.query).offset >= 0
    => PageOf(Bind(resp.query).limit, Bind(resp.query).offset)

\* The rows (b, ts 2), (a, ts 1), (c, ts 1) are listed a, c, b.
PageExample ==
    /\ resp.endpoint = "/messages"
    /\ resp.query = EmptyDict
    /\ {row.message_id : row \in messages} = {Str_a, Str_b, Str_c}
    /\ \E row \in messages : row.message_id = Str_a /\ row.ts = Ts1
    => [i \in DOMAIN resp.data |-> resp.data[i].message_id] = <<Str_a, Str_c, Str_b>>

====
